---- MODULE Spec2Model ----
(***************************************************************************)
(* The sourcetools tokenizer (Tokenizer.h, Token.h) as a state machine.    *)
(* The source buffer is a sequence of ASCII codes.  A token is the span    *)
(* [begin, end) of buffer offsets it borrows, plus its type.  The engine   *)
(* is the pair (cursor offset, bracket stack).                             *)
(***************************************************************************)
EXTENDS Integers, Sequences, FiniteSets, TLC

VARIABLES
  code,        \* the source buffer handed to Tokenizer(code, n)
  cursor,      \* cursor_.offset()
  tokenStack,  \* tokenStack_, top of the stack last
  tokens,      \* the vector filled by the tokenize(code, n) loop
  token,       \* the token the last call produced (*pToken, or peek's result)
  hasMore,     \* what the last Tokenizer::tokenize call returned
  call,        \* the last call made on the engine, with peek's argument
  before,      \* the engine (cursor, stack) as it was when that call began
  span,        \* the [begin, end) the last stringValue(begin, end) was given
  value,       \* the std::string the last stringValue call returned
  kinds,       \* the last complement / isComplement call and its result
  cloned       \* a copy made of the engine: its cursor, stack and tokens so far

vars == <<code, cursor, tokenStack, tokens, token, hasMore, call, before, span, value, kinds, cloned>>

----------------------------------------------------------------------------
(* Bounds of the model *)

MaxBracketLen == 5
MaxOpLen == 3
MaxDelimLen == 3
MaxHexTail == 3
MaxMixedLen == 3
MaxLookahead == 2
MaxDecTail == 3
MaxDecodeLen == 4
MaxBodyLen == 3
MaxRunTail == 3
MaxGroupTail == 3
MaxCloneLen == 3

----------------------------------------------------------------------------
(* Characters *)

Chr ==
  [ NUL |-> 0, BEL |-> 7, BS |-> 8, TAB |-> 9, NL |-> 10, VT |-> 11, FF |-> 12,
    CR |-> 13, SPACE |-> 32,
    BANG |-> 33, DQUOTE |-> 34, HASH |-> 35, DOLLAR |-> 36, PERCENT |-> 37,
    AMP |-> 38, SQUOTE |-> 39, LPAREN |-> 40, RPAREN |-> 41, STAR |-> 42,
    PLUS |-> 43, COMMA |-> 44, MINUS |-> 45, DOT |-> 46, SLASH |-> 47,
    D0 |-> 48, D1 |-> 49, D4 |-> 52, D7 |-> 55, D9 |-> 57,
    COLON |-> 58, SEMI |-> 59, LT |-> 60, EQ |-> 61, GT |-> 62,
    QUESTION |-> 63, AT |-> 64,
    A |-> 65, E |-> 69, F |-> 70, G |-> 71, L |-> 76, U |-> 85, X |-> 88, Z |-> 90,
    LBRACKET |-> 91, BACKSLASH |-> 92, RBRACKET |-> 93, HAT |-> 94,
    UNDERSCORE |-> 95, BACKTICK |-> 96,
    a |-> 97, b |-> 98, e |-> 101, f |-> 102, g |-> 103, i |-> 105, n |-> 110,
    r |-> 114, t |-> 116, u |-> 117, v |-> 118, x |-> 120, z |-> 122,
    LBRACE |-> 123, PIPE |-> 124, RBRACE |-> 125, TILDE |-> 126 ]

isspace(c) == c = Chr.SPACE \/ (c >= Chr.TAB /\ c <= Chr.CR)
isdigit(c) == c >= Chr.D0 /\ c <= Chr.D9
isalpha(c) == (c >= Chr.A /\ c <= Chr.Z) \/ (c >= Chr.a /\ c <= Chr.z)
isalnum(c) == isalpha(c) \/ isdigit(c)

isHexDigit(c) ==
  \/ (c >= Chr.D0 /\ c <= Chr.D9)
  \/ (c >= Chr.A /\ c <= Chr.F)
  \/ (c >= Chr.a /\ c <= Chr.f)

isValidForStartOfRSymbol(c) == isalpha(c) \/ c = Chr.DOT
isValidForRSymbol(c) == isalnum(c) \/ c = Chr.DOT \/ c = Chr.UNDERSCORE

Keywords == { <<Chr.i, Chr.f>> }

symbolType(lexeme) == IF lexeme \in Keywords THEN "KEYWORD_IF" ELSE "SYMBOL"

----------------------------------------------------------------------------
(* TextCursor and Token *)

\* cursor_.peek(k) with the cursor at offset cur: the byte, or the '\0'
\* sentinel past the end of the buffer.
cursorPeek(c, cur, k) == IF cur + k < Len(c) THEN c[cur + k + 1] ELSE Chr.NUL

\* Token(type): no backing span (begin_ = end_ = nullptr, written -1).
Token(type) == [begin |-> -1, end |-> -1, type |-> type]

\* Token(cursor, type, length)
TokenAt(cur, type, length) == [begin |-> cur, end |-> cur + length, type |-> type]

size(t) == t.end - t.begin

Engine(cur, stack) == [cursor |-> cur, stack |-> stack]

----------------------------------------------------------------------------
(* Tokenizer *)

\* consumeToken without its cursor_.advance(length).
consumeTokenNoAdvance(e, type, length) ==
  [ cursor |-> e.cursor,
    stack  |-> e.stack,
    token  |-> TokenAt(e.cursor, type, length) ]

consumeToken(e, type, length) ==
  [ cursor |-> e.cursor + length,
    stack  |-> e.stack,
    token  |-> TokenAt(e.cursor, type, length) ]

\* The loop of consumeUntil testing the byte after a backslash against the
\* delimiter (no skip of the escaped byte).
RECURSIVE consumeUntilLoopNoSkip(_, _, _, _, _)
consumeUntilLoopNoSkip(c, lookahead, distance, ch, skipEscaped) ==
  IF lookahead = Len(c)
  THEN [success |-> FALSE, distance |-> distance]
  ELSE IF cursorPeek(c, lookahead + 1, 0) = ch
  THEN [success |-> TRUE, distance |-> distance + 1]
  ELSE consumeUntilLoopNoSkip(c, lookahead + 1, distance + 1, ch, skipEscaped)

RECURSIVE consumeUntilLoop(_, _, _, _, _)
consumeUntilLoop(c, lookahead, distance, ch, skipEscaped) ==
  IF lookahead = Len(c)
  THEN [success |-> FALSE, distance |-> distance]
  ELSE IF skipEscaped /\ cursorPeek(c, lookahead + 1, 0) = Chr.BACKSLASH
  THEN consumeUntilLoop(c, lookahead + 2, distance + 2, ch, skipEscaped)
  ELSE IF cursorPeek(c, lookahead + 1, 0) = ch
  THEN [success |-> TRUE, distance |-> distance + 1]
  ELSE consumeUntilLoop(c, lookahead + 1, distance + 1, ch, skipEscaped)

untilToken(e, type, r) ==
  IF r.success
  THEN consumeToken(e, type, r.distance + 1)
  ELSE consumeToken(e, "ERR", r.distance + 1)

consumeUntil(c, e, ch, type, skipEscaped) ==
  untilToken(e, type, consumeUntilLoop(c, e.cursor, 0, ch, skipEscaped))

consumeUserOperator(c, e) == consumeUntil(c, e, Chr.PERCENT, "OPERATOR_USER", FALSE)
consumeComment(c, e)      == consumeUntil(c, e, Chr.NL, "COMMENT", FALSE)
consumeQuotedSymbol(c, e) == consumeUntil(c, e, Chr.BACKTICK, "SYMBOL", TRUE)
consumeQString(c, e)      == consumeUntil(c, e, Chr.SQUOTE, "STRING", TRUE)
consumeQQString(c, e)     == consumeUntil(c, e, Chr.DQUOTE, "STRING", TRUE)

RECURSIVE whileSpace(_, _, _)
whileSpace(c, cur, distance) ==
  IF isspace(cursorPeek(c, cur, distance))
  THEN whileSpace(c, cur, distance + 1)
  ELSE distance

consumeWhitespace(c, e) ==
  consumeToken(e, "WHITESPACE", whileSpace(c, e.cursor, 1))

isStartOfNumber(c, e) ==
  LET ch == cursorPeek(c, e.cursor, 0) IN
  IF isdigit(ch) THEN TRUE
  ELSE IF ch = Chr.DOT THEN isdigit(cursorPeek(c, e.cursor, 1))
  ELSE FALSE

isStartOfSymbol(c, e) == isValidForStartOfRSymbol(cursorPeek(c, e.cursor, 0))

\* The loop of consumeHexadecimalNumber leaving the 'i' or 'L' that ends the
\* literal out of it (break without ++distance).
RECURSIVE hexLoopSuffixLeft(_, _, _, _)
hexLoopSuffixLeft(c, cur, distance, success) ==
  LET peek == cursorPeek(c, cur, distance) IN
  IF ~(isalnum(peek) /\ peek # Chr.NUL)
  THEN [distance |-> distance, success |-> success]
  ELSE IF peek = Chr.i \/ peek = Chr.L
  THEN [distance |-> distance, success |-> success]
  ELSE hexLoopSuffixLeft(c, cur, distance + 1, success /\ isHexDigit(peek))

RECURSIVE hexLoop(_, _, _, _)
hexLoop(c, cur, distance, success) ==
  LET peek == cursorPeek(c, cur, distance) IN
  IF ~(isalnum(peek) /\ peek # Chr.NUL)
  THEN [distance |-> distance, success |-> success]
  ELSE IF peek = Chr.i \/ peek = Chr.L
  THEN [distance |-> distance + 1, success |-> success]
  ELSE hexLoop(c, cur, distance + 1, success /\ isHexDigit(peek))

\* What consumeHexadecimalNumber returns (ret), with the engine and *pToken
\* it leaves; token is meaningful only where consumeToken has been called.
hexResult(ret, r) ==
  [ret |-> ret, cursor |-> r.cursor, stack |-> r.stack, token |-> r.token]

hexToken(e, l) ==
  hexResult(TRUE, consumeToken(e, IF l.success THEN "NUMBER" ELSE "ERR", l.distance))

consumeHexadecimalNumber(c, e) ==
  IF cursorPeek(c, e.cursor, 0) # Chr.D0
  THEN [ret |-> FALSE, cursor |-> e.cursor, stack |-> e.stack, token |-> Token("INVALID")]
  ELSE IF ~(cursorPeek(c, e.cursor, 1) = Chr.x \/ cursorPeek(c, e.cursor, 1) = Chr.X)
  THEN [ret |-> FALSE, cursor |-> e.cursor, stack |-> e.stack, token |-> Token("INVALID")]
  ELSE IF ~isHexDigit(cursorPeek(c, e.cursor, 2))
  THEN hexResult(FALSE, consumeToken(e, "ERR", 2))
  ELSE hexToken(e, hexLoop(c, e.cursor, 2, TRUE))

RECURSIVE whileDigit(_, _, _)
whileDigit(c, cur, distance) ==
  IF isdigit(cursorPeek(c, cur, distance))
  THEN whileDigit(c, cur, distance + 1)
  ELSE distance

\* consumeNumber, line 220 on: the final 'L' and the token.
numberSuffix(c, e, distance, success) ==
  consumeToken(e, IF success THEN "NUMBER" ELSE "ERR",
               IF cursorPeek(c, e.cursor, distance) = Chr.L
               THEN distance + 1 ELSE distance)

\* consumeNumber, line 212 on: a '.' after the exponent's digits.
numberExponentDot(c, e, distance, success) ==
  IF cursorPeek(c, e.cursor, distance) = Chr.DOT
  THEN numberSuffix(c, e, whileDigit(c, e.cursor, distance + 1), FALSE)
  ELSE numberSuffix(c, e, distance, success)

\* The digits following the E, without the test that there is one.
numberExponentDigitsUnchecked(c, e, distance) ==
  numberExponentDot(c, e, whileDigit(c, e.cursor, distance), TRUE)

\* consumeNumber, line 205 on: the digits following the E.
numberExponentDigits(c, e, distance) ==
  numberExponentDot(c, e, whileDigit(c, e.cursor, distance),
                    isdigit(cursorPeek(c, e.cursor, distance)))

\* consumeNumber, line 197 on: 'e' or 'E', then a '-' or a '+'.
numberExponent(c, e, distance) ==
  IF cursorPeek(c, e.cursor, distance) = Chr.e \/ cursorPeek(c, e.cursor, distance) = Chr.E
  THEN IF cursorPeek(c, e.cursor, distance + 1) = Chr.MINUS
          \/ cursorPeek(c, e.cursor, distance + 1) = Chr.PLUS
       THEN numberExponentDigits(c, e, distance + 2)
       ELSE numberExponentDigits(c, e, distance + 1)
  ELSE numberSuffix(c, e, distance, TRUE)

\* consumeNumber, line 190 on: a dot for decimals.
numberDot(c, e, distance) ==
  IF cursorPeek(c, e.cursor, distance) = Chr.DOT
  THEN numberExponent(c, e, whileDigit(c, e.cursor, distance + 1))
  ELSE numberExponent(c, e, distance)

\* consumeNumber, line 184 on, from the engine consumeHexadecimalNumber left
\* (distance restarts at 0 there).
numberDecimal(c, e) == numberDot(c, e, whileDigit(c, e.cursor, 0))

numberAfterHex(c, hex) ==
  IF hex.ret
  THEN [cursor |-> hex.cursor, stack |-> hex.stack, token |-> hex.token]
  ELSE numberDecimal(c, Engine(hex.cursor, hex.stack))

consumeNumber(c, e) == numberAfterHex(c, consumeHexadecimalNumber(c, e))

RECURSIVE whileSymbol(_, _, _)
whileSymbol(c, cur, distance) ==
  IF isValidForRSymbol(cursorPeek(c, cur, distance))
  THEN whileSymbol(c, cur, distance + 1)
  ELSE distance

symbolToken(c, e, distance) ==
  consumeToken(e, symbolType(SubSeq(c, e.cursor + 1, e.cursor + distance)), distance)

consumeSymbol(c, e) == symbolToken(c, e, whileSymbol(c, e.cursor, 1))


\* What tokenize returns: true, with the engine and *pToken a consume call left.
scanned(r) == [cursor |-> r.cursor, stack |-> r.stack, token |-> r.token, ret |-> TRUE]

\* tokenize, ch == '[', pushing LBRACKET for '[[' as well.
tokenizeLeftBracketPushesSingle(c, e) ==
  IF cursorPeek(c, e.cursor, 1) = Chr.LBRACKET
  THEN consumeToken(Engine(e.cursor, Append(e.stack, "LBRACKET")), "LDBRACKET", 2)
  ELSE consumeToken(Engine(e.cursor, Append(e.stack, "LBRACKET")), "LBRACKET", 1)

\* tokenize, ch == '['
tokenizeLeftBracket(c, e) ==
  IF cursorPeek(c, e.cursor, 1) = Chr.LBRACKET
  THEN consumeToken(Engine(e.cursor, Append(e.stack, "LDBRACKET")), "LDBRACKET", 2)
  ELSE consumeToken(Engine(e.cursor, Append(e.stack, "LBRACKET")), "LBRACKET", 1)

\* tokenize, ch == ']', popping the stack only where a closing bracket is emitted.
tokenizeRightBracketErrKeeps(c, e) ==
  IF e.stack = <<>>
  THEN consumeToken(e, "ERR", 1)
  ELSE IF e.stack[Len(e.stack)] = "LDBRACKET"
  THEN IF cursorPeek(c, e.cursor, 1) = Chr.RBRACKET
       THEN consumeToken(Engine(e.cursor, SubSeq(e.stack, 1, Len(e.stack) - 1)), "RDBRACKET", 2)
       ELSE consumeToken(e, "ERR", 1)
  ELSE consumeToken(Engine(e.cursor, SubSeq(e.stack, 1, Len(e.stack) - 1)), "RBRACKET", 1)

\* tokenize, ch == ']'
tokenizeRightBracket(c, e) ==
  IF e.stack = <<>>
  THEN consumeToken(e, "ERR", 1)
  ELSE IF e.stack[Len(e.stack)] = "LDBRACKET"
  THEN IF cursorPeek(c, e.cursor, 1) = Chr.RBRACKET
       THEN consumeToken(Engine(e.cursor, SubSeq(e.stack, 1, Len(e.stack) - 1)), "RDBRACKET", 2)
       ELSE consumeToken(Engine(e.cursor, SubSeq(e.stack, 1, Len(e.stack) - 1)), "ERR", 1)
  ELSE consumeToken(Engine(e.cursor, SubSeq(e.stack, 1, Len(e.stack) - 1)), "RBRACKET", 1)

\* tokenize, ch == '<', taking '<<' for '<<-' without looking at the third byte.
tokenizeLessTwoBytes(c, e) ==
  IF cursorPeek(c, e.cursor, 1) = Chr.MINUS
  THEN consumeToken(e, "OPERATOR_ASSIGN_LEFT", 2)
  ELSE IF cursorPeek(c, e.cursor, 1) = Chr.EQ
  THEN consumeToken(e, "OPERATOR_LESS_OR_EQUAL", 2)
  ELSE IF cursorPeek(c, e.cursor, 1) = Chr.LT
  THEN consumeToken(e, "OPERATOR_ASSIGN_LEFT_PARENT", 3)
  ELSE consumeToken(e, "OPERATOR_LESS", 1)

\* tokenize, ch == '<'
tokenizeLess(c, e) ==
  IF cursorPeek(c, e.cursor, 1) = Chr.MINUS
  THEN consumeToken(e, "OPERATOR_ASSIGN_LEFT", 2)
  ELSE IF cursorPeek(c, e.cursor, 1) = Chr.EQ
  THEN consumeToken(e, "OPERATOR_LESS_OR_EQUAL", 2)
  ELSE IF cursorPeek(c, e.cursor, 1) = Chr.LT /\ cursorPeek(c, e.cursor, 2) = Chr.MINUS
  THEN consumeToken(e, "OPERATOR_ASSIGN_LEFT_PARENT", 3)
  ELSE consumeToken(e, "OPERATOR_LESS", 1)

\* tokenize, ch == ':'
tokenizeColon(c, e) ==
  IF cursorPeek(c, e.cursor, 1) = Chr.COLON
  THEN IF cursorPeek(c, e.cursor, 2) = Chr.COLON
       THEN consumeToken(e, "OPERATOR_NAMESPACE_ALL", 3)
       ELSE consumeToken(e, "OPERATOR_NAMESPACE_EXPORTS", 2)
  ELSE IF cursorPeek(c, e.cursor, 1) = Chr.EQ
  THEN consumeToken(e, "OPERATOR_ASSIGN_LEFT_COLON", 2)
  ELSE consumeToken(e, "OPERATOR_SEQUENCE", 1)

\* tokenize, ch == '-'
tokenizeMinus(c, e) ==
  IF cursorPeek(c, e.cursor, 1) = Chr.GT
  THEN IF cursorPeek(c, e.cursor, 2) = Chr.GT
       THEN consumeToken(e, "OPERATOR_ASSIGN_RIGHT_PARENT", 3)
       ELSE consumeToken(e, "OPERATOR_ASSIGN_RIGHT", 2)
  ELSE consumeToken(e, "OPERATOR_MINUS", 1)

\* tokenize, the operators that are one character, or that character and a
\* second one (follow): ch == '>', '=', '|', '&', '*', '!'
tokenizePair(c, e, follow, pair, single) ==
  IF cursorPeek(c, e.cursor, 1) = follow
  THEN consumeToken(e, pair, 2)
  ELSE consumeToken(e, single, 1)

\* tokenize, the multi-character operators
tokenizeOperator(c, e, ch) ==
  IF ch = Chr.LT THEN tokenizeLess(c, e)
  ELSE IF ch = Chr.GT
  THEN tokenizePair(c, e, Chr.EQ, "OPERATOR_GREATER_OR_EQUAL", "OPERATOR_GREATER")
  ELSE IF ch = Chr.EQ
  THEN tokenizePair(c, e, Chr.EQ, "OPERATOR_EQUAL", "OPERATOR_ASSIGN_LEFT_EQUALS")
  ELSE IF ch = Chr.PIPE
  THEN tokenizePair(c, e, Chr.PIPE, "OPERATOR_OR_SCALAR", "OPERATOR_OR_VECTOR")
  ELSE IF ch = Chr.AMP
  THEN tokenizePair(c, e, Chr.AMP, "OPERATOR_AND_SCALAR", "OPERATOR_AND_VECTOR")
  ELSE IF ch = Chr.STAR
  THEN tokenizePair(c, e, Chr.STAR, "OPERATOR_EXPONENTATION_STARS", "OPERATOR_MULTIPLY")
  ELSE IF ch = Chr.COLON THEN tokenizeColon(c, e)
  ELSE IF ch = Chr.BANG
  THEN tokenizePair(c, e, Chr.EQ, "OPERATOR_NOT_EQUAL", "OPERATOR_NEGATION")
  ELSE tokenizeMinus(c, e)

OperatorStart ==
  { Chr.LT, Chr.GT, Chr.EQ, Chr.PIPE, Chr.AMP, Chr.STAR, Chr.COLON, Chr.BANG, Chr.MINUS }

\* tokenize, past the end-of-input test: the dispatch on the character ch at
\* the cursor.
tokenizeChar(c, e, ch) ==
  \* Block-related tokens
  IF ch = Chr.LBRACE THEN consumeToken(e, "LBRACE", 1)
  ELSE IF ch = Chr.RBRACE THEN consumeToken(e, "RBRACE", 1)
  ELSE IF ch = Chr.LPAREN THEN consumeToken(e, "LPAREN", 1)
  ELSE IF ch = Chr.RPAREN THEN consumeToken(e, "RPAREN", 1)
  ELSE IF ch = Chr.LBRACKET THEN tokenizeLeftBracket(c, e)
  ELSE IF ch = Chr.RBRACKET THEN tokenizeRightBracket(c, e)
  \* Operators
  ELSE IF ch \in OperatorStart THEN tokenizeOperator(c, e, ch)
  ELSE IF ch = Chr.PLUS THEN consumeToken(e, "OPERATOR_PLUS", 1)
  ELSE IF ch = Chr.TILDE THEN consumeToken(e, "OPERATOR_FORMULA", 1)
  ELSE IF ch = Chr.QUESTION THEN consumeToken(e, "OPERATOR_HELP", 1)
  ELSE IF ch = Chr.SLASH THEN consumeToken(e, "OPERATOR_DIVIDE", 1)
  ELSE IF ch = Chr.AT THEN consumeToken(e, "OPERATOR_AT", 1)
  ELSE IF ch = Chr.DOLLAR THEN consumeToken(e, "OPERATOR_DOLLAR", 1)
  ELSE IF ch = Chr.HAT THEN consumeToken(e, "OPERATOR_HAT", 1)
  \* User operators
  ELSE IF ch = Chr.PERCENT THEN consumeUserOperator(c, e)
  \* Punctuation-related tokens
  ELSE IF ch = Chr.COMMA THEN consumeToken(e, "COMMA", 1)
  ELSE IF ch = Chr.SEMI THEN consumeToken(e, "SEMI", 1)
  \* Whitespace
  ELSE IF isspace(ch) THEN consumeWhitespace(c, e)
  \* Strings and symbols
  ELSE IF ch = Chr.SQUOTE THEN consumeQString(c, e)
  ELSE IF ch = Chr.DQUOTE THEN consumeQQString(c, e)
  ELSE IF ch = Chr.BACKTICK THEN consumeQuotedSymbol(c, e)
  \* Comments
  ELSE IF ch = Chr.HASH THEN consumeComment(c, e)
  \* Number
  ELSE IF isStartOfNumber(c, e) THEN consumeNumber(c, e)
  \* Symbol
  ELSE IF isStartOfSymbol(c, e) THEN consumeSymbol(c, e)
  \* Nothing matched -- error
  ELSE consumeToken(e, "ERR", 1)

\* Tokenizer::tokenize emptying the bracket stack when it reports the end.
tokenizeEndClearsStack(c, e) ==
  IF e.cursor >= Len(c)
  THEN [cursor |-> e.cursor, stack |-> <<>>, token |-> Token("END"), ret |-> FALSE]
  ELSE scanned(tokenizeChar(c, e, cursorPeek(c, e.cursor, 0)))

\* Tokenizer::tokenize(Token* pToken): the engine and *pToken it leaves, and the
\* value it returns (ret).
tokenize(c, e) ==
  IF e.cursor >= Len(c)
  THEN [cursor |-> e.cursor, stack |-> e.stack, token |-> Token("END"), ret |-> FALSE]
  ELSE scanned(tokenizeChar(c, e, cursorPeek(c, e.cursor, 0)))

\* The loop of Tokenizer::peek, run on the clone.
RECURSIVE peekLoop(_, _, _, _, _)
RECURSIVE peekStep(_, _, _, _)
peekLoop(c, clone, result, i, lookahead) ==
  IF ~(i < lookahead)
  THEN [clone |-> clone, result |-> result]
  ELSE peekStep(c, tokenize(c, clone), i, lookahead)

\* The body of the loop, r being what clone.tokenize(&result) left.
peekStep(c, r, i, lookahead) ==
  IF ~r.ret
  THEN [clone |-> Engine(r.cursor, r.stack), result |-> r.token]
  ELSE peekLoop(c, Engine(r.cursor, r.stack), r.token, i + 1, lookahead)

\* peek scanning on the engine itself (Tokenizer& clone = *this).
peekOnThis(c, e, lookahead) ==
  [ engine |-> peekLoop(c, Engine(e.cursor, e.stack), Token("END"), 0, lookahead).clone,
    result |-> peekLoop(c, Engine(e.cursor, e.stack), Token("END"), 0, lookahead).result ]

\* peek on a clone that copies the cursor and starts with an empty stack.
peekCursorOnly(c, e, lookahead) ==
  [ engine |-> e,
    result |-> peekLoop(c, Engine(e.cursor, <<>>), Token("END"), 0, lookahead).result ]

\* A copy of the engine that starts with an empty bracket stack.
copyCursorOnly(e) == Engine(e.cursor, <<>>)

\* Tokenizer(const Tokenizer&), the implicit copy constructor: cursor_ and
\* tokenStack_ are copied member by member.
copy(e) == Engine(e.cursor, e.stack)

\* Tokenizer::peek(lookahead): the engine it leaves behind (this) and the token
\* it returns.  The clone is a copy of the cursor and of the stack.
peek(c, e, lookahead) ==
  [ engine |-> e,
    result |-> peekLoop(c, Engine(e.cursor, e.stack), Token("END"), 0, lookahead).result ]

\* tokenize(code, n), its loop: r is what the call tokenizer.tokenize(&token)
\* left.
RECURSIVE tokenizeAllLoop(_, _, _)
RECURSIVE tokenizeAllStep(_, _, _)

tokenizeAllLoop(c, e, ts) == tokenizeAllStep(c, ts, tokenize(c, e))

tokenizeAllStep(c, ts, r) ==
  IF r.ret
  THEN tokenizeAllLoop(c, Engine(r.cursor, r.stack), Append(ts, r.token))
  ELSE ts

\* tokenize(code, n): the vector it returns.
tokenizeAll(c) ==
  IF Len(c) = 0 THEN <<>>
  ELSE tokenizeAllLoop(c, Engine(0, <<>>), <<>>)

----------------------------------------------------------------------------
(* The escape decoder of Token.h *)

\* *it, the buffer being the NUL-terminated data of a std::string.
deref(c, it) == IF it < Len(c) THEN c[it + 1] ELSE Chr.NUL

\* token.contents(): std::string(begin_, end_).
contents(c, t) == [ k \in 1..size(t) |-> deref(c, t.begin + k - 1) ]

hexValue(c) ==
  IF c >= Chr.D0 /\ c <= Chr.D9 THEN c - Chr.D0
  ELSE IF c >= Chr.a /\ c <= Chr.f THEN c - Chr.a + 10
  ELSE IF c >= Chr.A /\ c <= Chr.F THEN c - Chr.A + 10
  ELSE 0

\* What a parse function returns (ok), with the iterator and the output
\* buffer it leaves.
Parsed(ok, it, output) == [ok |-> ok, it |-> it, output |-> output]

RECURSIVE parseOctalLoop(_, _, _, _, _)
parseOctalLoop(c, it, end, result, output) ==
  IF it # end /\ Chr.D0 <= deref(c, it) /\ deref(c, it) <= Chr.D7
  THEN parseOctalLoop(c, it + 1, end, (8 * result + deref(c, it) - Chr.D0) % 256, output)
  ELSE Parsed(TRUE, it, Append(output, result))

parseOctal(c, it, output) ==
  IF deref(c, it) # Chr.BACKSLASH
  THEN Parsed(FALSE, it, output)
  ELSE IF deref(c, it + 1) < Chr.D0 \/ deref(c, it + 1) > Chr.D7
  THEN Parsed(FALSE, it, output)
  ELSE parseOctalLoop(c, it + 1, it + 4, 0, output)

RECURSIVE parseHexLoop(_, _, _, _, _)
parseHexLoop(c, it, end, val, output) ==
  IF it # end /\ hexValue(deref(c, it)) # 0
  THEN parseHexLoop(c, it + 1, end, (16 * val + hexValue(deref(c, it))) % 256, output)
  ELSE Parsed(TRUE, it, Append(output, val))

parseHex(c, it, output) ==
  IF deref(c, it) # Chr.BACKSLASH
  THEN Parsed(FALSE, it, output)
  ELSE IF deref(c, it + 1) # Chr.x
  THEN Parsed(FALSE, it, output)
  ELSE IF ~isHexDigit(deref(c, it + 2))
  THEN Parsed(FALSE, it, output)
  ELSE parseHexLoop(c, it + 2, it + 4, 0, output)

\* The locales ::wcrtomb may run under.
Locales == { "C", "UTF-8" }

\* ::wcrtomb(output, wc, &state): the bytes written, or <<-1>> for the -1 it
\* returns on a character the locale cannot encode.
wcrtomb(wc, locale) ==
  IF wc < 128 THEN <<wc>>
  ELSE IF locale = "C" THEN <<-1>>
  ELSE IF wc < 2048 THEN <<192 + (wc \div 64), 128 + (wc % 64)>>
  ELSE IF wc < 65536
  THEN <<224 + (wc \div 4096), 128 + ((wc \div 64) % 64), 128 + (wc % 64)>>
  ELSE <<240 + (wc \div 262144), 128 + ((wc \div 4096) % 64),
         128 + ((wc \div 64) % 64), 128 + (wc % 64)>>

\* parseUnicode from the closing '}' on; clone is past the hex digits.
parseUnicodeEnd(c, it, clone, delimited, bytes, output) ==
  IF delimited /\ deref(c, clone) # Chr.RBRACE
  THEN Parsed(FALSE, it, output)
  ELSE IF bytes = <<-1>>
  THEN Parsed(FALSE, it, output)
  ELSE Parsed(TRUE, IF delimited THEN clone + 1 ELSE clone, output \o bytes)

RECURSIVE parseUnicodeLoop(_, _, _, _, _, _, _, _)
parseUnicodeLoop(c, it, clone, end, val, delimited, locale, output) ==
  IF clone # end /\ isHexDigit(deref(c, clone))
  THEN parseUnicodeLoop(c, it, clone + 1, end, 16 * val + hexValue(deref(c, clone)),
                        delimited, locale, output)
  ELSE parseUnicodeEnd(c, it, clone, delimited, wcrtomb(val, locale), output)

\* parseUnicode from the '{' test on; clone is it + 2.
parseUnicodeDigits(c, it, clone, digits, delimited, locale, output) ==
  IF ~isHexDigit(deref(c, IF delimited THEN clone + 1 ELSE clone))
  THEN Parsed(FALSE, it, output)
  ELSE parseUnicodeLoop(c, it, IF delimited THEN clone + 1 ELSE clone,
                        (IF delimited THEN clone + 1 ELSE clone) + digits,
                        0, delimited, locale, output)

parseUnicode(c, it, locale, output) ==
  IF deref(c, it) # Chr.BACKSLASH
  THEN Parsed(FALSE, it, output)
  ELSE IF deref(c, it + 1) = Chr.u
  THEN parseUnicodeDigits(c, it, it + 2, 4, deref(c, it + 2) = Chr.LBRACE, locale, output)
  ELSE IF deref(c, it + 1) = Chr.U
  THEN parseUnicodeDigits(c, it, it + 2, 8, deref(c, it + 2) = Chr.LBRACE, locale, output)
  ELSE Parsed(FALSE, it, output)

\* stringValue(begin, end), the switch after ++it.
escapedChar(ch) ==
  CASE ch = Chr.a -> Chr.BEL
    [] ch = Chr.b -> Chr.BS
    [] ch = Chr.f -> Chr.FF
    [] ch = Chr.n -> Chr.NL
    [] ch = Chr.r -> Chr.CR
    [] ch = Chr.t -> Chr.TAB
    [] ch = Chr.v -> Chr.VT
    [] ch = Chr.BACKSLASH -> Chr.BACKSLASH
    [] OTHER -> ch

\* stringValue(begin, end), the branch taken on a backslash.
stringValueEscape(c, it, locale, output) ==
  IF parseOctal(c, it, output).ok THEN parseOctal(c, it, output)
  ELSE IF parseHex(c, it, output).ok THEN parseHex(c, it, output)
  ELSE IF parseUnicode(c, it, locale, output).ok THEN parseUnicode(c, it, locale, output)
  ELSE Parsed(TRUE, it + 2, Append(output, escapedChar(deref(c, it + 1))))

RECURSIVE stringValueLoop(_, _, _, _, _)
RECURSIVE stringValueStep(_, _, _, _)

\* stringValue(begin, end), its while loop.
stringValueLoop(c, it, end, locale, output) ==
  IF ~(it < end) THEN output
  ELSE IF deref(c, it) = Chr.BACKSLASH
  THEN stringValueStep(c, end, locale, stringValueEscape(c, it, locale, output))
  ELSE stringValueLoop(c, it + 1, end, locale, Append(output, deref(c, it)))

stringValueStep(c, end, locale, r) ==
  stringValueLoop(c, r.it, end, locale, r.output)

\* stringValue(begin, end): the decoded bytes, the '\0' written after them
\* being counted in the length of the result.
stringValue(c, begin, end, locale) ==
  IF begin = end THEN <<>>
  ELSE Append(stringValueLoop(c, begin, end, locale, <<>>), Chr.NUL)

Span(begin, end) == [begin |-> begin, end |-> end]

\* The span stringValue(const Token&) hands to stringValue(begin, end).
tokenSpan(c, t) ==
  IF t.type = "STRING" THEN Span(t.begin + 1, t.end - 1)
  ELSE IF t.type = "SYMBOL" /\ deref(c, t.begin) = Chr.BACKTICK
  THEN Span(t.begin + 1, t.end - 1)
  ELSE Span(t.begin, t.end)

----------------------------------------------------------------------------
(* Token kinds and their bits *)

RECURSIVE BitAnd(_, _)
BitAnd(x, y) ==
  IF x = 0 \/ y = 0 THEN 0
  ELSE (x % 2) * (y % 2) + 2 * BitAnd(x \div 2, y \div 2)

RECURSIVE BitOr(_, _)
BitOr(x, y) ==
  IF x = 0 THEN y
  ELSE IF y = 0 THEN x
  ELSE (IF x % 2 = 1 \/ y % 2 = 1 THEN 1 ELSE 0) + 2 * BitOr(x \div 2, y \div 2)

RECURSIVE BitXor(_, _)
BitXor(x, y) ==
  IF x = 0 THEN y
  ELSE IF y = 0 THEN x
  ELSE (IF x % 2 # y % 2 THEN 1 ELSE 0) + 2 * BitXor(x \div 2, y \div 2)

SOURCE_TOOLS_CHECK_MASK(self, mask) == BitAnd(mask, self) = mask
SOURCE_TOOLS_LOWER_BITS(val, bits) == BitAnd(2^bits - 1, val)

\* The group bits, above the four low bits that number the kinds of a group.
SOURCE_TOOLS_BRACKET_RIGHT_BIT == 16
SOURCE_TOOLS_BRACKET_LEFT_BIT == 32
SOURCE_TOOLS_BRACKET_BIT == 64
SOURCE_TOOLS_OPERATOR_BIT == 128
SOURCE_TOOLS_OPERATOR_UNARY_BIT == 256
SOURCE_TOOLS_KEYWORD_BIT == 512
SOURCE_TOOLS_KEYWORD_CONTROL_FLOW_BIT == 1024

\* A left or right bracket kind, index being its low bits.
Bracket(side, index) == BitOr(SOURCE_TOOLS_BRACKET_BIT, BitOr(side, index))

\* The kinds: brackets pair up on their low bits, operators and keywords
\* carry the bits of their groups, leaf kinds carry no group bit.
TokenType ==
  [ LPAREN    |-> Bracket(SOURCE_TOOLS_BRACKET_LEFT_BIT, 1),
    RPAREN    |-> Bracket(SOURCE_TOOLS_BRACKET_RIGHT_BIT, 1),
    LBRACE    |-> Bracket(SOURCE_TOOLS_BRACKET_LEFT_BIT, 2),
    RBRACE    |-> Bracket(SOURCE_TOOLS_BRACKET_RIGHT_BIT, 2),
    LBRACKET  |-> Bracket(SOURCE_TOOLS_BRACKET_LEFT_BIT, 4),
    RBRACKET  |-> Bracket(SOURCE_TOOLS_BRACKET_RIGHT_BIT, 4),
    LDBRACKET |-> Bracket(SOURCE_TOOLS_BRACKET_LEFT_BIT, 8),
    RDBRACKET |-> Bracket(SOURCE_TOOLS_BRACKET_RIGHT_BIT, 8),
    OPERATOR_PLUS  |-> BitOr(SOURCE_TOOLS_OPERATOR_BIT, BitOr(SOURCE_TOOLS_OPERATOR_UNARY_BIT, 1)),
    OPERATOR_MINUS |-> BitOr(SOURCE_TOOLS_OPERATOR_BIT, BitOr(SOURCE_TOOLS_OPERATOR_UNARY_BIT, 2)),
    OPERATOR_MULTIPLY    |-> BitOr(SOURCE_TOOLS_OPERATOR_BIT, 1),
    OPERATOR_ASSIGN_LEFT |-> BitOr(SOURCE_TOOLS_OPERATOR_BIT, 4),
    OPERATOR_USER        |-> BitOr(SOURCE_TOOLS_OPERATOR_BIT, 8),
    KEYWORD_IF   |-> BitOr(SOURCE_TOOLS_KEYWORD_BIT, BitOr(SOURCE_TOOLS_KEYWORD_CONTROL_FLOW_BIT, 1)),
    KEYWORD_TRUE |-> BitOr(SOURCE_TOOLS_KEYWORD_BIT, 4),
    INVALID    |-> 2^11,
    END        |-> 2^12,
    EMPTY      |-> 2^13,
    MISSING    |-> 2^14,
    SEMI       |-> 2^15,
    COMMA      |-> 2^16,
    SYMBOL     |-> 2^17,
    COMMENT    |-> 2^18,
    WHITESPACE |-> 2^19,
    STRING     |-> 2^20,
    NUMBER     |-> 2^21,
    ERR        |-> 2^22 ]

\* complement flipping the left bit only.
complementLeftOnly(type) == BitXor(type, SOURCE_TOOLS_BRACKET_LEFT_BIT)

complement(type) ==
  BitXor(type, BitOr(SOURCE_TOOLS_BRACKET_LEFT_BIT, SOURCE_TOOLS_BRACKET_RIGHT_BIT))

\* isComplement, mask being its static local.
isComplementMask(lhs, rhs, mask) ==
  IF SOURCE_TOOLS_CHECK_MASK(BitOr(lhs, rhs), mask)
  THEN SOURCE_TOOLS_LOWER_BITS(lhs, 4) = SOURCE_TOOLS_LOWER_BITS(rhs, 4)
  ELSE FALSE

isComplement(lhs, rhs) ==
  isComplementMask(lhs, rhs,
                   BitOr(SOURCE_TOOLS_BRACKET_BIT,
                         BitOr(SOURCE_TOOLS_BRACKET_LEFT_BIT, SOURCE_TOOLS_BRACKET_RIGHT_BIT)))

\* The values of the kinds.
Kinds == { TokenType[name] : name \in DOMAIN TokenType }

\* No complement or isComplement call made yet.
NoKinds == [op |-> "none", lhs |-> 0, rhs |-> 0, result |-> 0]

----------------------------------------------------------------------------
(* Inputs *)

SeqsUpTo(S, n) == UNION { [1..k -> S] : k \in 0..n }

BracketAlphabet == { Chr.LBRACKET, Chr.RBRACKET, Chr.a }

OpAlphabet ==
  { Chr.LT, Chr.GT, Chr.EQ, Chr.COLON, Chr.BANG, Chr.MINUS, Chr.a }

\* The operators that double: one or two of '|', '&', '*' and '='.
PairInputs ==
  { <<x>> : x \in {Chr.PIPE, Chr.AMP, Chr.STAR, Chr.EQ} }
    \cup { <<x, y>> : x \in {Chr.PIPE, Chr.AMP, Chr.STAR}, y \in {Chr.PIPE, Chr.AMP, Chr.STAR, Chr.EQ} }

DelimAlphabet ==
  { Chr.DQUOTE, Chr.SQUOTE, Chr.BACKTICK, Chr.PERCENT, Chr.HASH, Chr.NL, Chr.a }

HexTailAlphabet == { Chr.D1, Chr.A, Chr.G, Chr.i, Chr.L, Chr.SPACE }

MixedAlphabet ==
  { Chr.D0, Chr.x, Chr.g, Chr.DQUOTE, Chr.RBRACKET, Chr.SPACE }

HexInputs ==
  { <<Chr.D0, m>> \o t : m \in {Chr.x, Chr.X}, t \in SeqsUpTo(HexTailAlphabet, MaxHexTail) }

DecTailAlphabet == { Chr.D1, Chr.DOT, Chr.e, Chr.MINUS, Chr.L }

\* Buffers that start a decimal literal, and a few with 'E' and '+'.
DecInputs ==
  { <<first>> \o t : first \in {Chr.D1, Chr.DOT}, t \in SeqsUpTo(DecTailAlphabet, MaxDecTail) }
    \cup { <<Chr.D1, Chr.E>>, <<Chr.D1, Chr.E, Chr.D1>>, <<Chr.D1, Chr.E, Chr.PLUS>>,
           <<Chr.D1, Chr.E, Chr.PLUS, Chr.D1>>, <<Chr.D1, Chr.e, Chr.PLUS, Chr.D1, Chr.L>>,
           <<Chr.D1, Chr.E, Chr.D1, Chr.DOT, Chr.D1>> }

DecodeAlphabet == { Chr.BACKSLASH, Chr.x, Chr.D4, Chr.D0, Chr.g }

\* Lexemes with the escapes the decoder knows, bare and quoted.
DecodeInputs ==
  SeqsUpTo(DecodeAlphabet, MaxDecodeLen)
    \cup { <<q>> \o t \o <<q>> :
             q \in {Chr.DQUOTE, Chr.BACKTICK}, t \in SeqsUpTo(DecodeAlphabet, MaxBodyLen) }
    \cup { <<Chr.BACKSLASH, Chr.D1, Chr.D0, Chr.D1>>,
           <<Chr.BACKSLASH, Chr.D7, Chr.D7, Chr.D7>>,
           <<Chr.BACKSLASH, Chr.n>>,
           <<Chr.BACKSLASH, Chr.x, Chr.D4, Chr.D1>>,
           <<Chr.SQUOTE, Chr.BACKSLASH, Chr.x, Chr.D4, Chr.D1, Chr.SQUOTE>>,
           <<Chr.BACKSLASH, Chr.u, Chr.D4, Chr.D1>>,
           <<Chr.BACKSLASH, Chr.u, Chr.LBRACE, Chr.D4, Chr.D1, Chr.RBRACE>>,
           <<Chr.BACKSLASH, Chr.u, Chr.LBRACE, Chr.D4, Chr.D1>>,
           <<Chr.BACKSLASH, Chr.u, Chr.D0, Chr.D0, Chr.e, Chr.D9>>,
           <<Chr.BACKSLASH, Chr.U, Chr.D0, Chr.D0, Chr.D0, Chr.D1, Chr.f, Chr.D0, Chr.D0, Chr.D0>>,
           <<Chr.BACKSLASH, Chr.u, Chr.D4, Chr.D0, Chr.D0, Chr.D0>> }

\* Delimited runs: an opening delimiter, then delimiters, backslashes and
\* plain bytes.
RunInputs ==
  UNION { { <<q>> \o t : t \in SeqsUpTo({q, Chr.BACKSLASH, Chr.a}, MaxRunTail) } :
            q \in {Chr.SQUOTE, Chr.DQUOTE, Chr.BACKTICK, Chr.PERCENT} }

\* An open '[' followed by other openers, a string, a comment and ']'.
GroupInputs ==
  { <<Chr.LBRACKET>> \o t :
      t \in SeqsUpTo({Chr.LPAREN, Chr.LBRACE, Chr.DQUOTE, Chr.HASH, Chr.RBRACKET}, MaxGroupTail) }

CloneAlphabet == { Chr.LBRACKET, Chr.RBRACKET, Chr.DQUOTE, Chr.a }

\* Buffers scanned by an engine and a copy of it.
CloneInputs == SeqsUpTo(CloneAlphabet, MaxCloneLen)

Inputs ==
  SeqsUpTo(BracketAlphabet, MaxBracketLen)
    \cup SeqsUpTo(OpAlphabet, MaxOpLen)
    \cup PairInputs
    \cup SeqsUpTo(DelimAlphabet, MaxDelimLen)
    \cup SeqsUpTo(MixedAlphabet, MaxMixedLen)
    \cup HexInputs
    \cup DecInputs
    \cup RunInputs
    \cup GroupInputs

\* No copy of the engine made yet.
NoClone ==
  [ made |-> FALSE, from |-> Engine(0, <<>>), cursor |-> 0, stack |-> <<>>,
    tokens |-> <<>>, hasMore |-> TRUE ]

----------------------------------------------------------------------------
(* The state machine *)

\* Tokenizer(code, n), and the locals of tokenize(code, n) before its loop.
Init ==
  /\ code \in Inputs
  /\ cursor = 0
  /\ tokenStack = <<>>
  /\ tokens = <<>>
  /\ token = Token("INVALID")
  /\ hasMore = TRUE
  /\ call = [op |-> "init", lookahead |-> 0]
  /\ before = Engine(0, <<>>)
  /\ span = Span(0, 0)
  /\ kinds = NoKinds
  /\ cloned = NoClone
  /\ value = <<>>

\* The tokenize(code, n) loop keeping WHITESPACE tokens out of the vector.
ScannedSkipsWhitespace(r) ==
  /\ cursor' = r.cursor
  /\ tokenStack' = r.stack
  /\ token' = r.token
  /\ hasMore' = r.ret
  /\ tokens' = IF r.ret /\ r.token.type # "WHITESPACE" THEN Append(tokens, r.token) ELSE tokens
  /\ call' = [op |-> "next", lookahead |-> 0]
  /\ before' = Engine(cursor, tokenStack)
  /\ span' = Span(0, 0)
  /\ value' = <<>>
  /\ UNCHANGED <<code, kinds, cloned>>

\* One call of Tokenizer::tokenize(&token), r being what it left; the
\* tokenize(code, n) loop pushes the token back when the call returns true.
Scanned(r) ==
  /\ cursor' = r.cursor
  /\ tokenStack' = r.stack
  /\ token' = r.token
  /\ hasMore' = r.ret
  /\ tokens' = IF r.ret THEN Append(tokens, r.token) ELSE tokens
  /\ call' = [op |-> "next", lookahead |-> 0]
  /\ before' = Engine(cursor, tokenStack)
  /\ span' = Span(0, 0)
  /\ value' = <<>>
  /\ UNCHANGED <<code, kinds, cloned>>

NextToken == Scanned(tokenize(code, Engine(cursor, tokenStack)))

\* One call of Tokenizer::peek(n), r being the engine it left and its result.
Peeked(r, n) ==
  /\ cursor' = r.engine.cursor
  /\ tokenStack' = r.engine.stack
  /\ token' = r.result
  /\ call' = [op |-> "peek", lookahead |-> n]
  /\ before' = Engine(cursor, tokenStack)
  /\ span' = Span(0, 0)
  /\ value' = <<>>
  /\ UNCHANGED <<code, tokens, hasMore, kinds, cloned>>

PeekToken(n) == Peeked(peek(code, Engine(cursor, tokenStack), n), n)

Next ==
  \/ NextToken
  \/ \E n \in 0..MaxLookahead : PeekToken(n)

Spec == Init /\ [][Next]_vars

\* The tokenizer over lexemes with escapes, and the decoder applied to the
\* tokens it returns and to spans of the buffer.
InitDecode ==
  /\ code \in DecodeInputs
  /\ cursor = 0
  /\ tokenStack = <<>>
  /\ tokens = <<>>
  /\ token = Token("INVALID")
  /\ hasMore = TRUE
  /\ call = [op |-> "init", lookahead |-> 0]
  /\ before = Engine(0, <<>>)
  /\ span = Span(0, 0)
  /\ kinds = NoKinds
  /\ cloned = NoClone
  /\ value = <<>>

\* One call of stringValue(begin, end), s being the span it is given.
Decoded(op, s, locale) ==
  /\ span' = s
  /\ value' = stringValue(code, s.begin, s.end, locale)
  /\ call' = [op |-> op, lookahead |-> 0]
  /\ UNCHANGED <<code, cursor, tokenStack, tokens, token, hasMore, before, kinds, cloned>>

\* stringValue(token) on the token the last next() returned.
StringValueToken(locale) ==
  /\ call.op = "next"
  /\ hasMore
  /\ Decoded("stringValue(token)", tokenSpan(code, token), locale)

\* stringValue(begin, end) on a span of the buffer, before it is tokenized.
StringValueSpan(begin, end, locale) ==
  /\ call.op = "init"
  /\ Decoded("stringValue(begin, end)", Span(begin, end), locale)

NextDecode ==
  \/ NextToken
  \/ \E locale \in Locales : StringValueToken(locale)
  \/ \E begin \in 0..Len(code), locale \in Locales :
       \E end \in begin..Len(code) : StringValueSpan(begin, end, locale)

SpecDecode == InitDecode /\ [][NextDecode]_vars

\* complement and isComplement applied to the kinds, and complement to what
\* the last complement call returned.
InitKinds ==
  /\ code = <<>>
  /\ cursor = 0
  /\ tokenStack = <<>>
  /\ tokens = <<>>
  /\ token = Token("INVALID")
  /\ hasMore = TRUE
  /\ call = [op |-> "init", lookahead |-> 0]
  /\ before = Engine(0, <<>>)
  /\ span = Span(0, 0)
  /\ value = <<>>
  /\ kinds = NoKinds
  /\ cloned = NoClone

Complement(type) ==
  /\ kinds' = [op |-> "complement", lhs |-> type, rhs |-> type, result |-> complement(type)]
  /\ UNCHANGED <<code, cursor, tokenStack, tokens, token, hasMore, call, before, span, value, cloned>>

ComplementAgain ==
  /\ kinds.op = "complement"
  /\ kinds' = [op |-> "complement again", lhs |-> kinds.lhs, rhs |-> kinds.result,
               result |-> complement(kinds.result)]
  /\ UNCHANGED <<code, cursor, tokenStack, tokens, token, hasMore, call, before, span, value, cloned>>

IsComplement(lhs, rhs) ==
  /\ kinds' = [op |-> "isComplement", lhs |-> lhs, rhs |-> rhs, result |-> isComplement(lhs, rhs)]
  /\ UNCHANGED <<code, cursor, tokenStack, tokens, token, hasMore, call, before, span, value, cloned>>

NextKinds ==
  \/ \E type \in Kinds : Complement(type)
  \/ ComplementAgain
  \/ \E lhs \in Kinds, rhs \in Kinds : IsComplement(lhs, rhs)

SpecKinds == InitKinds /\ [][NextKinds]_vars

\* An engine and one copy of it, each scanned with next() in any order.
InitClone ==
  /\ code \in CloneInputs
  /\ cursor = 0
  /\ tokenStack = <<>>
  /\ tokens = <<>>
  /\ token = Token("INVALID")
  /\ hasMore = TRUE
  /\ call = [op |-> "init", lookahead |-> 0]
  /\ before = Engine(0, <<>>)
  /\ span = Span(0, 0)
  /\ value = <<>>
  /\ kinds = NoKinds
  /\ cloned = NoClone

\* Tokenizer clone(*this), e being the copy.
Cloned(e) ==
  /\ cloned' = [ made |-> TRUE, from |-> Engine(cursor, tokenStack),
                 cursor |-> e.cursor, stack |-> e.stack,
                 tokens |-> <<>>, hasMore |-> TRUE ]
  /\ call' = [op |-> "clone", lookahead |-> 0]
  /\ before' = Engine(cursor, tokenStack)
  /\ UNCHANGED <<code, cursor, tokenStack, tokens, token, hasMore, span, value, kinds>>

MakeClone ==
  /\ ~cloned.made
  /\ Cloned(copy(Engine(cursor, tokenStack)))

\* One call of clone.tokenize(&token), r being what it left; the tokens it
\* returns with true are kept in the clone's own vector.
CloneScanned(r) ==
  /\ cloned' = [ cloned EXCEPT !.cursor = r.cursor, !.stack = r.stack, !.hasMore = r.ret,
                              !.tokens = IF r.ret THEN Append(@, r.token) ELSE @ ]
  /\ token' = r.token
  /\ call' = [op |-> "next on clone", lookahead |-> 0]
  /\ before' = Engine(cursor, tokenStack)
  /\ UNCHANGED <<code, cursor, tokenStack, tokens, hasMore, span, value, kinds>>

NextOnClone ==
  /\ cloned.made
  /\ CloneScanned(tokenize(code, Engine(cloned.cursor, cloned.stack)))

NextClone ==
  \/ NextToken
  \/ MakeClone
  \/ NextOnClone

SpecClone == InitClone /\ [][NextClone]_vars

----------------------------------------------------------------------------
(* Vocabulary of the properties *)

\* The tokenize(code, n) loop has ended: a tokenize call has returned false.
Done == hasMore = FALSE

\* The last call was next() and it returned a token.
Produced == call.op = "next" /\ hasMore

\* The byte at offset k of the buffer (0 <= k < n).
ByteAt(k) == code[k + 1]

Types(ts) == [k \in 1..Len(ts) |-> ts[k].type]

Min(S) == CHOOSE m \in S : \A k \in S : m <= k

\* The spans of ts follow one another from offset 0 to offset n.
Covers(ts, n) ==
  IF ts = <<>> THEN n = 0
  ELSE /\ ts[1].begin = 0
       /\ \A k \in 1..(Len(ts) - 1) : ts[k + 1].begin = ts[k].end
       /\ ts[Len(ts)].end = n

----------------------------------------------------------------------------
(* C1 *)

\* C1: the tokens returned by tokenize(code, n) are contiguous and cover the
\* input exactly: the first begins at offset 0, each begins where the previous
\* one ended, the last ends at offset n.
C1_TokensCoverInput == Done => Covers(tokens, Len(code))

----------------------------------------------------------------------------
(* C2 *)

\* C2: a next() call either reports no more input (returns false with the END
\* token, the cursor at or past the end) or strictly increases the cursor
\* offset; a call that starts before the end of input never reports
\* no-more-input without progress, so the loop makes at most n successful calls.
C2_ForwardProgress ==
  /\ call.op = "next" =>
       \/ /\ ~hasMore
          /\ token = Token("END")
          /\ before.cursor >= Len(code)
       \/ /\ hasMore
          /\ before.cursor < Len(code)
          /\ cursor > before.cursor
  /\ Len(tokens) <= Len(code)

\* A next() call that produced an ERR token and moved the cursor forward.
C2_Witness == Produced /\ token.type = "ERR" /\ cursor > before.cursor

----------------------------------------------------------------------------
(* C3 *)

\* C3: no token returned by next() with hasMore = true has zero length.
C3_NoEmptyToken == Produced => size(token) >= 1

----------------------------------------------------------------------------
(* C4 *)

\* C4: peek(n) leaves the cursor offset and the bracket stack as they were, so
\* the next() that follows it yields the token and the state that next() would
\* have yielded without the peek.
C4_PeekLeavesEngine ==
  call.op = "peek" =>
    /\ cursor = before.cursor
    /\ tokenStack = before.stack
    /\ tokenize(code, Engine(cursor, tokenStack)) = tokenize(code, before)

\* A peek(2) that scanned an opening bracket on its clone and returned the
\* token after it, with the engine's own stack still empty.
C4_Witness ==
  /\ call.op = "peek"
  /\ call.lookahead = 2
  /\ token.begin > cursor
  /\ ByteAt(cursor) = Chr.LBRACKET
  /\ tokenStack = <<>>

----------------------------------------------------------------------------
(* C5 *)

\* The token the n-th of n successive next() calls from engine e returns
\* (n >= 1), or the END token if fewer than n tokens remain.
RECURSIVE NthNext(_, _, _)
NthNext(c, e, n) ==
  IF ~tokenize(c, e).ret THEN Token("END")
  ELSE IF n = 1 THEN tokenize(c, e).token
  ELSE NthNext(c, Engine(tokenize(c, e).cursor, tokenize(c, e).stack), n - 1)

\* C5: peek(n), n >= 1, returns the token the n-th of n successive next() calls
\* returns, or END if fewer than n tokens remain.  Stated on the calls made:
\* what a peek(n) call returned is that token; and after each next() call,
\* peek(1) from the state before it is the token the call produced, and
\* peek(n) from the state before it is peek(n-1) from the state after it (END
\* when the call reported no more input).
C5_PeekIsNthNext ==
  /\ (call.op = "peek" /\ call.lookahead >= 1) =>
       token = NthNext(code, before, call.lookahead)
  /\ call.op = "next" =>
       \A n \in 1..MaxLookahead :
         peek(code, before, n).result =
           IF ~hasMore THEN Token("END")
           ELSE IF n = 1 THEN token
           ELSE peek(code, Engine(cursor, tokenStack), n - 1).result

\* A peek(2) from an engine whose stack is empty that returned the RBRACKET
\* closing the '[' it scanned on its clone.
C5_Witness ==
  /\ call.op = "peek"
  /\ call.lookahead = 2
  /\ tokenStack = <<>>
  /\ token.type = "RBRACKET"

----------------------------------------------------------------------------
(* C6 *)

\* C6: when next() scans ']': with the stack empty it emits a 1-byte ERR and
\* the stack stays empty; otherwise it pops the top, and emits a 2-byte
\* RDBRACKET if the popped kind is LDBRACKET and the next byte is ']', a 1-byte
\* ERR if the popped kind is LDBRACKET and the next byte is not ']', a 1-byte
\* RBRACKET if the popped kind is LBRACKET.  So '[[a]]' yields LDBRACKET SYMBOL
\* RDBRACKET, '[a]' yields LBRACKET SYMBOL RBRACKET, the trailing ']' of '[[a]'
\* is ERR and a bare ']' is ERR.
C6_ClosingBracket ==
  /\ (Produced /\ ByteAt(before.cursor) = Chr.RBRACKET) =>
       IF before.stack = <<>>
       THEN token = TokenAt(before.cursor, "ERR", 1) /\ tokenStack = <<>>
       ELSE /\ tokenStack = SubSeq(before.stack, 1, Len(before.stack) - 1)
            /\ before.stack[Len(before.stack)] = "LDBRACKET" =>
                 IF before.cursor + 1 < Len(code) /\ ByteAt(before.cursor + 1) = Chr.RBRACKET
                 THEN token = TokenAt(before.cursor, "RDBRACKET", 2)
                 ELSE token = TokenAt(before.cursor, "ERR", 1)
            /\ before.stack[Len(before.stack)] = "LBRACKET" =>
                 token = TokenAt(before.cursor, "RBRACKET", 1)
  /\ Done =>
       /\ code = <<Chr.LBRACKET, Chr.LBRACKET, Chr.a, Chr.RBRACKET, Chr.RBRACKET>>
            => Types(tokens) = <<"LDBRACKET", "SYMBOL", "RDBRACKET">>
       /\ code = <<Chr.LBRACKET, Chr.a, Chr.RBRACKET>>
            => Types(tokens) = <<"LBRACKET", "SYMBOL", "RBRACKET">>
       /\ code = <<Chr.LBRACKET, Chr.LBRACKET, Chr.a, Chr.RBRACKET>>
            => Types(tokens) = <<"LDBRACKET", "SYMBOL", "ERR">>
       /\ code = <<Chr.RBRACKET>> => Types(tokens) = <<"ERR">>

\* '[[a]' scanned to its end: the lone ']' popped the LDBRACKET and is an ERR.
C6_Witness ==
  /\ Produced
  /\ code = <<Chr.LBRACKET, Chr.LBRACKET, Chr.a, Chr.RBRACKET>>
  /\ before.stack = <<"LDBRACKET">>
  /\ tokenStack = <<>>
  /\ token = TokenAt(3, "ERR", 1)

----------------------------------------------------------------------------
(* C7 *)

\* The fixed operator table.
OperatorTable ==
  { [text |-> <<Chr.LT, Chr.LT, Chr.MINUS>>, type |-> "OPERATOR_ASSIGN_LEFT_PARENT"],
    [text |-> <<Chr.LT, Chr.MINUS>>,         type |-> "OPERATOR_ASSIGN_LEFT"],
    [text |-> <<Chr.LT, Chr.EQ>>,            type |-> "OPERATOR_LESS_OR_EQUAL"],
    [text |-> <<Chr.LT>>,                    type |-> "OPERATOR_LESS"],
    [text |-> <<Chr.GT, Chr.EQ>>,            type |-> "OPERATOR_GREATER_OR_EQUAL"],
    [text |-> <<Chr.GT>>,                    type |-> "OPERATOR_GREATER"],
    [text |-> <<Chr.EQ, Chr.EQ>>,            type |-> "OPERATOR_EQUAL"],
    [text |-> <<Chr.EQ>>,                    type |-> "OPERATOR_ASSIGN_LEFT_EQUALS"],
    [text |-> <<Chr.PIPE, Chr.PIPE>>,        type |-> "OPERATOR_OR_SCALAR"],
    [text |-> <<Chr.PIPE>>,                  type |-> "OPERATOR_OR_VECTOR"],
    [text |-> <<Chr.AMP, Chr.AMP>>,          type |-> "OPERATOR_AND_SCALAR"],
    [text |-> <<Chr.AMP>>,                   type |-> "OPERATOR_AND_VECTOR"],
    [text |-> <<Chr.STAR, Chr.STAR>>,        type |-> "OPERATOR_EXPONENTATION_STARS"],
    [text |-> <<Chr.STAR>>,                  type |-> "OPERATOR_MULTIPLY"],
    [text |-> <<Chr.COLON, Chr.COLON, Chr.COLON>>, type |-> "OPERATOR_NAMESPACE_ALL"],
    [text |-> <<Chr.COLON, Chr.COLON>>,      type |-> "OPERATOR_NAMESPACE_EXPORTS"],
    [text |-> <<Chr.COLON, Chr.EQ>>,         type |-> "OPERATOR_ASSIGN_LEFT_COLON"],
    [text |-> <<Chr.COLON>>,                 type |-> "OPERATOR_SEQUENCE"],
    [text |-> <<Chr.BANG, Chr.EQ>>,          type |-> "OPERATOR_NOT_EQUAL"],
    [text |-> <<Chr.BANG>>,                  type |-> "OPERATOR_NEGATION"],
    [text |-> <<Chr.MINUS, Chr.GT, Chr.GT>>, type |-> "OPERATOR_ASSIGN_RIGHT_PARENT"],
    [text |-> <<Chr.MINUS, Chr.GT>>,         type |-> "OPERATOR_ASSIGN_RIGHT"],
    [text |-> <<Chr.MINUS>>,                 type |-> "OPERATOR_MINUS"] }

\* text is a prefix of the input remaining at offset k.
IsPrefixAt(text, k) ==
  /\ k + Len(text) <= Len(code)
  /\ \A j \in 1..Len(text) : code[k + j] = text[j]

\* The operators of the table that are a prefix of the input at offset k.
MatchesAt(k) == { o \in OperatorTable : IsPrefixAt(o.text, k) }

\* C7: with the cursor at one of < > = | & * : ! -, next() emits the longest
\* operator of the table that is a prefix of the remaining input, with that
\* operator's kind and exactly that many bytes.
C7_OperatorLongestMatch ==
  (Produced /\ ByteAt(before.cursor) \in OperatorStart) =>
    \E o \in MatchesAt(before.cursor) :
      /\ \A other \in MatchesAt(before.cursor) : Len(other.text) <= Len(o.text)
      /\ token = TokenAt(before.cursor, o.type, Len(o.text))
      /\ cursor = before.cursor + Len(o.text)

\* '<<-' scanned as one 3-byte assign-left-parent token.
C7_Witness ==
  /\ Produced
  /\ token = TokenAt(0, "OPERATOR_ASSIGN_LEFT_PARENT", 3)
  /\ code = <<Chr.LT, Chr.LT, Chr.MINUS>>

----------------------------------------------------------------------------
(* C8 *)

\* The delimiters of the delimited runs other than the comment.
RunDelimiters == { Chr.SQUOTE, Chr.DQUOTE, Chr.BACKTICK, Chr.PERCENT }

\* C8: a delimited run opened at the cursor by ' " ` or %, whose delimiter
\* does not occur again before end-of-input, is one ERR token from the opening
\* delimiter to end-of-input (offset n), and leaves the cursor at n.
C8_UnterminatedRunEndsAtEof ==
  ( /\ Produced
    /\ ByteAt(before.cursor) \in RunDelimiters
    /\ \A k \in (before.cursor + 1)..(Len(code) - 1) : ByteAt(k) # ByteAt(before.cursor) )
  => /\ token = [begin |-> before.cursor, end |-> Len(code), type |-> "ERR"]
     /\ cursor = Len(code)

----------------------------------------------------------------------------
(* C9 *)

\* C9: whenever the cursor is at '#', next() emits a COMMENT token, never ERR,
\* whether or not a newline follows.
C9_CommentAlwaysSucceeds ==
  (Produced /\ ByteAt(before.cursor) = Chr.HASH) => token.type = "COMMENT"

----------------------------------------------------------------------------
(* C10 *)

\* The end of the maximal alphanumeric run that starts at offset k.
RunEnd(k) ==
  Min({ j \in k..Len(code) : j = Len(code) \/ ~isalnum(ByteAt(j)) })

\* The offsets of the 'i' and 'L' in the alphanumeric run that starts at k.
Suffixes(k) == { j \in k..(RunEnd(k) - 1) : ByteAt(j) = Chr.i \/ ByteAt(j) = Chr.L }

\* The end of the hexadecimal literal whose digits start at offset k: the end
\* of the alphanumeric run, or just after its first 'i' or 'L'.
HexEnd(k) == IF Suffixes(k) = {} THEN RunEnd(k) ELSE Min(Suffixes(k)) + 1

\* The offsets of the characters consumed after the prefix, the terminating
\* suffix excluded.
HexBody(k) == IF Suffixes(k) = {} THEN k..(RunEnd(k) - 1) ELSE k..(Min(Suffixes(k)) - 1)

\* The input at offset k is '0', 'x' or 'X', and a hex digit.
HexLiteralAt(k) ==
  /\ k + 2 < Len(code)
  /\ ByteAt(k) = Chr.D0
  /\ ByteAt(k + 1) = Chr.x \/ ByteAt(k + 1) = Chr.X
  /\ isHexDigit(ByteAt(k + 2))

\* C10: with '0', 'x' or 'X', and a hex digit at the cursor, next() emits one
\* token from the cursor to the end of the following alphanumeric run, cut
\* just after its first 'i' or 'L'; its kind is NUMBER iff every character
\* consumed after the prefix, that suffix excluded, is a hex digit, else ERR.
C10_HexadecimalLiteral ==
  (Produced /\ HexLiteralAt(before.cursor)) =>
    /\ token.begin = before.cursor
    /\ token.end = HexEnd(before.cursor + 2)
    /\ cursor = token.end
    /\ token.type =
         IF \A j \in HexBody(before.cursor + 2) : isHexDigit(ByteAt(j))
         THEN "NUMBER" ELSE "ERR"

\* '0x1G' scanned as one 4-byte ERR token.
C10_Witness ==
  /\ Produced
  /\ code = <<Chr.D0, Chr.x, Chr.D1, Chr.G>>
  /\ token = TokenAt(0, "ERR", 4)
----------------------------------------------------------------------------
(* C11 *)

\* The byte at offset k is ch (false at and past end-of-input).
IsAt(k, ch) == k < Len(code) /\ ByteAt(k) = ch

\* The end of the maximal run of digits that starts at offset k.
DigitsEnd(k) == Min({ j \in k..Len(code) : j = Len(code) \/ ~isdigit(ByteAt(j)) })

\* digits*, optional '.' digits*, from offset s.
DecFractionEnd(s) ==
  IF IsAt(DigitsEnd(s), Chr.DOT) THEN DigitsEnd(DigitsEnd(s) + 1) ELSE DigitsEnd(s)

DecHasExponent(s) ==
  IsAt(DecFractionEnd(s), Chr.e) \/ IsAt(DecFractionEnd(s), Chr.E)

\* The offset after the exponent marker and its optional sign.
DecExponentStart(s) ==
  IF IsAt(DecFractionEnd(s) + 1, Chr.MINUS) \/ IsAt(DecFractionEnd(s) + 1, Chr.PLUS)
  THEN DecFractionEnd(s) + 2 ELSE DecFractionEnd(s) + 1

\* A '.' follows the exponent's digits.
DecExponentDot(s) == IsAt(DigitsEnd(DecExponentStart(s)), Chr.DOT)

\* The end of the literal before its optional 'L'.
DecBodyEnd(s) ==
  IF ~DecHasExponent(s) THEN DecFractionEnd(s)
  ELSE IF DecExponentDot(s) THEN DigitsEnd(DigitsEnd(DecExponentStart(s)) + 1)
  ELSE DigitsEnd(DecExponentStart(s))

DecEnd(s) == IF IsAt(DecBodyEnd(s), Chr.L) THEN DecBodyEnd(s) + 1 ELSE DecBodyEnd(s)

\* The exponent marker is present and is followed by no digit, or by a '.'
\* after its digits.
DecMalformed(s) ==
  /\ DecHasExponent(s)
  /\ \/ DigitsEnd(DecExponentStart(s)) = DecExponentStart(s)
     \/ DecExponentDot(s)

\* The input at offset s starts with a digit, or with '.' and a digit, and
\* not with '0' and 'x' or 'X'.
DecLiteralAt(s) ==
  /\ s < Len(code)
  /\ \/ isdigit(ByteAt(s))
     \/ ByteAt(s) = Chr.DOT /\ s + 1 < Len(code) /\ isdigit(ByteAt(s + 1))
  /\ ~(ByteAt(s) = Chr.D0 /\ (IsAt(s + 1, Chr.x) \/ IsAt(s + 1, Chr.X)))

----------------------------------------------------------------------------
(* C12 *)

\* The last call was a call of the decoder.
DecodeCalled == call.op \in { "stringValue(token)", "stringValue(begin, end)" }

\* The bytes of the buffer in [begin, end).
Bytes(begin, end) == [ k \in 1..(end - begin) |-> deref(code, begin + k - 1) ]

\* C12: the string stringValue(begin, end) returns is no longer than the span
\* it was given.
C12_OutputNoLongerThanInput ==
  DecodeCalled => Len(value) <= span.end - span.begin
----------------------------------------------------------------------------
(* C13 *)

\* The span starts with a backslash, 'x' and a hex digit, and does not end
\* between two hex digits of the buffer.
HexEscapeAt(s) ==
  /\ s.end - s.begin >= 3
  /\ deref(code, s.begin) = Chr.BACKSLASH
  /\ deref(code, s.begin + 1) = Chr.x
  /\ isHexDigit(deref(code, s.begin + 2))
  /\ ~(s.end - s.begin = 3 /\ isHexDigit(deref(code, s.end)))

\* The number of hex digits of that escape: two where a second one follows.
HexEscapeDigits(s) ==
  IF s.end - s.begin >= 4 /\ isHexDigit(deref(code, s.begin + 3)) THEN 2 ELSE 1

\* The number those digits spell.
HexEscapeNumber(s) ==
  IF HexEscapeDigits(s) = 2
  THEN 16 * hexValue(deref(code, s.begin + 2)) + hexValue(deref(code, s.begin + 3))
  ELSE hexValue(deref(code, s.begin + 2))

\* The offset after the escape.
HexEscapeEnd(s) == s.begin + 2 + HexEscapeDigits(s)

\* C13: a backslash, 'x' and one or two hex digits at the start of the span
\* decode to one byte, the number the digits spell; the decoder goes on with
\* the byte after the digits.
C13_HexEscape ==
  (DecodeCalled /\ HexEscapeAt(span)) =>
    /\ Len(value) >= 1
    /\ value[1] = HexEscapeNumber(span)
    /\ (HexEscapeEnd(span) < span.end /\ deref(code, HexEscapeEnd(span)) # Chr.BACKSLASH) =>
         /\ Len(value) >= 2
         /\ value[2] = deref(code, HexEscapeEnd(span))

----------------------------------------------------------------------------
(* C14 *)

\* No byte of the span is a backslash.
EscapeFree(s) == \A k \in s.begin..(s.end - 1) : deref(code, k) # Chr.BACKSLASH

\* C14: on a span with no backslash the decoder returns the bytes of the
\* span, as many as the span has; the span of a STRING token is what lies
\* between its quotes and the span of a plain SYMBOL token is its raw text.
C14_IdentityOnEscapeFree ==
  /\ (DecodeCalled /\ EscapeFree(span)) => value = Bytes(span.begin, span.end)
  /\ (call.op = "stringValue(token)" /\ token.type = "STRING") =>
       span = Span(token.begin + 1, token.end - 1)
  /\ (call.op = "stringValue(token)" /\ token.type = "SYMBOL"
        /\ deref(code, token.begin) # Chr.BACKTICK) =>
       span = Span(token.begin, token.end)
----------------------------------------------------------------------------
(* C15 *)

RECURSIVE Concat(_)
Concat(ss) == IF ss = <<>> THEN <<>> ELSE Head(ss) \o Concat(Tail(ss))

\* The lexemes of the tokens ts of the buffer c, in order.
Lexemes(c, ts) == [ k \in 1..Len(ts) |-> contents(c, ts[k]) ]

\* The tokens ts2 of c2 have the kinds and the lexemes of the tokens ts of c.
SameTokens(c, ts, c2, ts2) ==
  /\ Types(ts2) = Types(ts)
  /\ Lexemes(c2, ts2) = Lexemes(c, ts)

Retokenized(c2) == SameTokens(code, tokens, c2, tokenizeAll(c2))

\* C15: tokenizing the concatenation of the lexemes of the returned tokens
\* gives the same kinds and lexemes again.
C15_Idempotence ==
  Done => Retokenized(Concat(Lexemes(code, tokens)))
----------------------------------------------------------------------------
(* C16 *)

\* The tokens the first n next() calls from engine e return, up to the first
\* call that returns false.
RECURSIVE FirstTokens(_, _, _)
FirstTokens(c, e, n) ==
  IF n = 0 \/ ~tokenize(c, e).ret THEN <<>>
  ELSE <<tokenize(c, e).token>>
         \o FirstTokens(c, Engine(tokenize(c, e).cursor, tokenize(c, e).stack), n - 1)

\* C16: the vector of the driver is empty for an empty buffer; it holds, in
\* scan order, the token of every next() call that returned true, WHITESPACE
\* and COMMENT tokens included: its k-th token is what the k-th next() call
\* on a fresh engine returns, the token just produced is its last one, and
\* once next() has returned false no further token follows; END is never in
\* it.
C16_DriverCollectsTokens ==
  /\ Len(code) = 0 => tokens = <<>>
  /\ tokens = FirstTokens(code, Engine(0, <<>>), Len(tokens))
  /\ \A k \in 1..Len(tokens) : tokens[k].type # "END"
  /\ Produced => (tokens # <<>> /\ tokens[Len(tokens)] = token)
  /\ Done => FirstTokens(code, Engine(0, <<>>), Len(tokens) + 1) = tokens

\* A comment and the line break after it, both in the vector at the end.
C16_Witness ==
  /\ Done
  /\ Types(tokens) = <<"COMMENT", "WHITESPACE">>
----------------------------------------------------------------------------
(* C17 *)

\* Bit b (a power of two) of x.
Bit(x, b) == (x \div b) % 2

\* The four bracket pairs, left kind first.
BracketPairs ==
  { <<TokenType.LPAREN, TokenType.RPAREN>>, <<TokenType.LBRACE, TokenType.RBRACE>>,
    <<TokenType.LBRACKET, TokenType.RBRACKET>>, <<TokenType.LDBRACKET, TokenType.RDBRACKET>> }

LeftKinds == { p[1] : p \in BracketPairs }
RightKinds == { p[2] : p \in BracketPairs }

\* x and y differ in their left and right bits and in no other bit.
FlipsSides(x, y) ==
  /\ Bit(x, SOURCE_TOOLS_BRACKET_LEFT_BIT) # Bit(y, SOURCE_TOOLS_BRACKET_LEFT_BIT)
  /\ Bit(x, SOURCE_TOOLS_BRACKET_RIGHT_BIT) # Bit(y, SOURCE_TOOLS_BRACKET_RIGHT_BIT)
  /\ x % SOURCE_TOOLS_BRACKET_RIGHT_BIT = y % SOURCE_TOOLS_BRACKET_RIGHT_BIT
  /\ x \div SOURCE_TOOLS_BRACKET_BIT = y \div SOURCE_TOOLS_BRACKET_BIT

\* C17: complement(k) flips the left and the right bit and no other, maps
\* the left kind of each bracket pair to its right kind and back, and applied
\* twice gives k again; isComplement(a, b) holds iff a and b are bracket
\* kinds of opposite sides with equal low bits: never for two kinds of the
\* same side, nor where one is not a bracket kind.
C17_BracketComplement ==
  /\ kinds.op = "complement" =>
       /\ FlipsSides(kinds.lhs, kinds.result)
       /\ \A p \in BracketPairs :
            /\ kinds.lhs = p[1] => kinds.result = p[2]
            /\ kinds.lhs = p[2] => kinds.result = p[1]
  /\ kinds.op = "complement again" => kinds.result = kinds.lhs
  /\ kinds.op = "isComplement" =>
       kinds.result =
         (/\ \/ kinds.lhs \in LeftKinds /\ kinds.rhs \in RightKinds
             \/ kinds.lhs \in RightKinds /\ kinds.rhs \in LeftKinds
          /\ kinds.lhs % 16 = kinds.rhs % 16)

\* complement(complement(LBRACE)) has been computed, via RBRACE.
C17_Witness ==
  /\ kinds.op = "complement again"
  /\ kinds.lhs = TokenType.LBRACE
  /\ kinds.rhs = TokenType.RBRACE
----------------------------------------------------------------------------
(* C18 *)

\* In the run opened at offset s, the byte at offset j is the byte after a
\* backslash that is not itself skipped.
RECURSIVE Skipped(_, _)
Skipped(s, j) ==
  /\ j - 1 > s
  /\ ByteAt(j - 1) = Chr.BACKSLASH
  /\ ~Skipped(s, j - 1)

\* The offsets at which the run opened at offset s can close: for the
\* escape-aware forms the later delimiters that are not skipped, for '%' all
\* later '%'.
Closings(s) ==
  { j \in (s + 1)..(Len(code) - 1) :
      /\ ByteAt(j) = ByteAt(s)
      /\ ByteAt(s) # Chr.PERCENT => ~Skipped(s, j) }

\* The kind of the run a delimiter opens.
RunType(ch) ==
  IF ch = Chr.PERCENT THEN "OPERATOR_USER"
  ELSE IF ch = Chr.BACKTICK THEN "SYMBOL"
  ELSE "STRING"

\* C18: a delimited run opened at the cursor that closes is one token from
\* the opening delimiter to the first closing one, included: the first later
\* delimiter that is not the byte after an unskipped backslash for ' " and `,
\* the first later '%' for '%'.
C18_TerminatedRun ==
  ( /\ Produced
    /\ ByteAt(before.cursor) \in RunDelimiters
    /\ Closings(before.cursor) # {} )
  => /\ token = [begin |-> before.cursor, end |-> Min(Closings(before.cursor)) + 1,
                 type |-> RunType(ByteAt(before.cursor))]
     /\ cursor = token.end

\* The string "\"" : its escaped quote does not close it, the next one does.
C18_Witness ==
  /\ Produced
  /\ code = <<Chr.DQUOTE, Chr.BACKSLASH, Chr.DQUOTE, Chr.DQUOTE>>
  /\ token = TokenAt(0, "STRING", 4)
----------------------------------------------------------------------------
(* C19 *)

\* C19: on a numeric start, well-formed or not, next() returns one token
\* that begins where the cursor was and ends where the cursor is: no byte is
\* consumed outside the token.
C19_NumericTokenSpansAdvance ==
  (Produced /\ isStartOfNumber(code, before)) =>
    /\ token.begin = before.cursor
    /\ token.end = cursor
----------------------------------------------------------------------------
(* C20 *)

\* The token t is the scan of a ']'.
ClosingScan(t) == size(t) >= 1 /\ ByteAt(t.begin) = Chr.RBRACKET

\* The stack the tokens ts leave: each '[' or '[[' token puts its kind on
\* top, each scan of a ']' with a non-empty stack takes the top off.
ReplayToken(stack, t) ==
  IF t.type \in {"LBRACKET", "LDBRACKET"} THEN Append(stack, t.type)
  ELSE IF ClosingScan(t) /\ stack # <<>> THEN SubSeq(stack, 1, Len(stack) - 1)
  ELSE stack

RECURSIVE Replay(_)
Replay(ts) ==
  IF ts = <<>> THEN <<>>
  ELSE ReplayToken(Replay(SubSeq(ts, 1, Len(ts) - 1)), ts[Len(ts)])

\* The number of '[' and '[[' tokens of ts, and the number of its scans of a
\* ']' made with a non-empty stack.
OpenCount(ts) == Cardinality({ k \in 1..Len(ts) : ts[k].type \in {"LBRACKET", "LDBRACKET"} })
RECURSIVE PopCountFrom(_, _, _)
PopCountFrom(ts, k, stack) ==
  IF k > Len(ts) THEN 0
  ELSE (IF ClosingScan(ts[k]) /\ stack # <<>> THEN 1 ELSE 0)
         + PopCountFrom(ts, k + 1, ReplayToken(stack, ts[k]))

PopCount(ts) == PopCountFrom(ts, 1, <<>>)

\* C20: the stack holds only LBRACKET and LDBRACKET, in the order their
\* opening tokens were scanned; its depth is the number of '[' and '[['
\* tokens emitted less the number of ']' scans made with a non-empty stack;
\* a scan of any other byte leaves the stack as it was, and a ']' scanned
\* with an empty stack leaves it empty.
C20_BracketStack ==
  /\ \A k \in 1..Len(tokenStack) : tokenStack[k] \in {"LBRACKET", "LDBRACKET"}
  /\ tokenStack = Replay(tokens)
  /\ Len(tokenStack) = OpenCount(tokens) - PopCount(tokens)
  /\ (Produced /\ ByteAt(before.cursor) \notin {Chr.LBRACKET, Chr.RBRACKET}) =>
       tokenStack = before.stack
  /\ (Produced /\ ByteAt(before.cursor) = Chr.RBRACKET /\ before.stack = <<>>) =>
       tokenStack = <<>>

\* '[' ']' '[[' '[' scanned: one pop, then two kinds on the stack in order.
C20_Witness ==
  /\ Types(tokens) = <<"LBRACKET", "RBRACKET", "LDBRACKET", "LBRACKET">>
  /\ tokenStack = <<"LDBRACKET", "LBRACKET">>
----------------------------------------------------------------------------
(* C22 *)

\* What a next() call at end-of-input leaves: the END token, false, and the
\* engine e as it was.
EndOfInput(e) ==
  [cursor |-> e.cursor, stack |-> e.stack, token |-> Token("END"), ret |-> FALSE]

\* C22: once a next() call has returned (END, false), that call has left the
\* cursor and the bracket stack as they were, and the next call on the
\* engine returns (END, false) again and leaves them too, wherever the cursor
\* is and whatever the stack holds.
C22_EndIsAbsorbing ==
  Done =>
    /\ call.op = "next" =>
         /\ token = Token("END")
         /\ cursor = before.cursor
         /\ tokenStack = before.stack
    /\ tokenize(code, Engine(cursor, tokenStack)) = EndOfInput(Engine(cursor, tokenStack))

\* The end reported with the cursor past the buffer and a '[' still open.
C22_Witness ==
  /\ Done
  /\ call.op = "next"
  /\ cursor > Len(code)
  /\ tokenStack # <<>>

----------------------------------------------------------------------------
(* C23 *)

\* C23: every token next() returns with hasMore = true spans bytes of the
\* buffer, 0 <= begin < end <= n, and the cursor never goes past n.
C23_TokenInsideBuffer ==
  /\ Produced =>
       /\ 0 <= token.begin
       /\ token.begin < token.end
       /\ token.end <= Len(code)
  /\ cursor <= Len(code)

----------------------------------------------------------------------------
(* C21 *)

\* The engine n next() calls from engine e leave, the calls stopping at the
\* first one that returns false.
RECURSIVE EngineAfter(_, _, _)
EngineAfter(c, e, n) ==
  IF n = 0 \/ ~tokenize(c, e).ret THEN e
  ELSE EngineAfter(c, Engine(tokenize(c, e).cursor, tokenize(c, e).stack), n - 1)

\* The tokens ts, the engine e and the flag more are what next() calls on an
\* engine that started as start and was scanned alone have left: ts are its
\* first tokens, e is the engine after them, and once next() has returned
\* false no further token follows.
ScannedAlone(c, start, ts, e, more) ==
  /\ ts = FirstTokens(c, start, Len(ts))
  /\ e = EngineAfter(c, start, Len(ts))
  /\ ~more => ~tokenize(c, e).ret

\* C21: once an engine is cloned, whatever the interleaving of next() calls
\* on the two, the original has the tokens and the state of a fresh engine
\* scanned alone, the clone has the tokens and the state of the engine it was
\* copied from scanned alone, and a next() call on the clone leaves the
\* cursor and the bracket stack of the original.
C21_CloneIndependence ==
  cloned.made =>
    /\ ScannedAlone(code, Engine(0, <<>>), tokens, Engine(cursor, tokenStack), hasMore)
    /\ ScannedAlone(code, cloned.from, cloned.tokens,
                    Engine(cloned.cursor, cloned.stack), cloned.hasMore)
    /\ call.op = "next on clone" => Engine(cursor, tokenStack) = before

\* A clone taken with a '[' open; the original and the clone have each closed
\* it on their own stack and each has reached the end.
C21_Witness ==
  /\ cloned.made
  /\ cloned.from.stack = <<"LBRACKET">>
  /\ Done
  /\ ~cloned.hasMore
  /\ tokenStack = <<>>
  /\ cloned.stack = <<>>
  /\ cloned.tokens # <<>>
  /\ cloned.tokens[1].type = "RBRACKET"
  /\ Len(tokens) > Len(cloned.tokens)

====
